---- MODULE Spec2Model ----
(***************************************************************************)
(* A model of app.py, the Gradio demo of the Dream diffusion language      *)
(* model: the chat history helpers, the generator that streams one UI      *)
(* update per recorded snapshot, and the event wiring of the page (submit, *)
(* clear, and the two events chained after a submission).                  *)
(*                                                                         *)
(* Strings are sequences of one-character strings, so that str.strip() is  *)
(* computed and not assumed.  A history is a sequence of pairs             *)
(* <<user_msg, assistant_msg>>; an assistant slot is a record whose kind   *)
(* says whether it is None, a decoded text, a progress text or an error    *)
(* string.  A generator runs from one yield to the next in one step: the   *)
(* framework applies the yielded outputs before it resumes the generator.  *)
(***************************************************************************)
EXTENDS Integers, Sequences, FiniteSets, TLC

\* ------------------------------------------------------------------ bounds
MaxHistory == 2      \* no submission once the state holds this many pairs
MaxQueue == 1        \* bot_response events waiting in the queue
MaxSnapshots == 3    \* calls of the snapshot hook by one diffusion_generate
PageSnapshots == 2   \* the same, in the specification of the whole page
GenLen == 1          \* length of the generated span (max_new_tokens)

\* ------------------------------------------------------------------ strings
EmptyStr == <<>>

RECURSIVE lstrip(_)
lstrip(s) == IF s # <<>> /\ Head(s) = " " THEN lstrip(Tail(s)) ELSE s

RECURSIVE rstrip(_)
rstrip(s) ==
    IF s # <<>> /\ s[Len(s)] = " " THEN rstrip(SubSeq(s, 1, Len(s) - 1)) ELSE s

strip(s) == rstrip(lstrip(s))

\* what the user types: nothing, white space only, or a message
Messages == {EmptyStr, <<" ">>, <<"a">>}

\* ------------------------------------------------------------------ tokens
mask_token_id == -100

mask_token_str == <<"[MASK]">>

\* the vocabulary of ordinary tokens: token id t is the text Vocab[t]
Vocab == <<"a", " ">>

\* the id of the tokens a chat template produces (never in the generated span)
PromptTokens == {Len(Vocab) + 1}

GenTokens == {mask_token_id} \cup DOMAIN Vocab

GenSpans == [1..GenLen -> GenTokens]

\* the spans the page's specification feeds the generator: nothing revealed
\* yet, or every position revealed
PageSpans == {[k \in 1..GenLen |-> t] : t \in {mask_token_id, 1}}

\* tokenizer.decode(ids, skip_special_tokens=True): the mask token is a special
\* token and decodes to nothing
RECURSIVE decode(_)
decode(ids) ==
    IF ids = <<>> THEN EmptyStr
    ELSE (IF Head(ids) \in DOMAIN Vocab THEN <<Vocab[Head(ids)]>> ELSE EmptyStr)
         \o decode(Tail(ids))

\* tokenizer.apply_chat_template(messages, add_generation_prompt=True): the
\* prompt grows with the messages and ends with the generation prompt
apply_chat_template(messages) ==
    [k \in 1..(Len(messages) + 1) |-> CHOOSE t \in PromptTokens : TRUE]

Slice(tensor, from) == SubSeq(tensor, from + 1, Len(tensor))

\* ------------------------------------------------------------------ values
None == [kind |-> "none", text |-> EmptyStr, i |-> 0, n |-> 0]

Text(s) == [kind |-> "text", text |-> s, i |-> 0, n |-> 0]

StepText(i, n) == [kind |-> "step", text |-> EmptyStr, i |-> i, n |-> n]

ErrorText(prefix, what) ==
    [kind |-> "error", text |-> <<prefix, what>>, i |-> 0, n |-> 0]

VisStr(s) == [kind |-> "str", text |-> s, tokens |-> <<>>]

VisTokens(toks) == [kind |-> "tokens", text |-> EmptyStr, tokens |-> toks]

SystemUser == <<"System">>

Last(s) == s[Len(s)]

SetLastSlot(h, slot) == [h EXCEPT ![Len(h)] = <<h[Len(h)][1], slot>>]

\* ------------------------------------------------------------------ helpers
RECURSIVE format_gradio_history_to_messages(_)
format_gradio_history_to_messages(history) ==
    IF history = <<>> THEN <<>>
    ELSE LET pair == Head(history)
             user == <<[role |-> "user", content |-> Text(pair[1])]>>
             assistant ==
                 IF pair[2] # None
                 THEN <<[role |-> "assistant", content |-> pair[2]]>>
                 ELSE <<>>
         IN user \o assistant \o format_gradio_history_to_messages(Tail(history))

add_user_message_twice(history, message) ==
    history \o <<<<message, None>>, <<message, None>>>>

add_user_message_to_gradio_history(history, message) ==
    history \o <<<<message, None>>>>

user_message_submitted(message, history) ==
    IF message = EmptyStr \/ strip(message) = EmptyStr
    THEN [history |-> history,
          chatbot |-> format_gradio_history_to_messages(history),
          textbox |-> EmptyStr]
    ELSE LET new_history == add_user_message_to_gradio_history(history, message)
         IN [history |-> new_history,
             chatbot |-> format_gradio_history_to_messages(new_history),
             textbox |-> EmptyStr]

\* ------------------------------------------------------- generation helpers
\* lines 84-89, 140-145, 199-204: the error string goes to the assistant slot of
\* the last pair of a deep copy of history
error_update_keep(history, prefix, error_message) ==
    [chatbot |-> format_gradio_history_to_messages(history),
     vis |-> VisStr(<<error_message>>),
     history |-> history]

error_update(history, prefix, error_message) ==
    LET current_history ==
            IF history # <<>>
            THEN SetLastSlot(history, ErrorText(prefix, error_message))
            ELSE <<<<SystemUser, ErrorText(prefix, error_message)>>>>
    IN [chatbot |-> format_gradio_history_to_messages(current_history),
        vis |-> VisStr(<<error_message>>),
        history |-> current_history]

\* lines 163-173: the colour of each position of the generated span
colorize_no_green(current_tokens, previous_tokens) ==
    [idx \in 1..Len(current_tokens) |->
        IF current_tokens[idx] = mask_token_id
        THEN [text |-> mask_token_str, color |-> "#444444"]
        ELSE [text |-> decode(<<current_tokens[idx]>>), color |-> "#6699CC"]]

colorize(current_tokens, previous_tokens) ==
    [idx \in 1..Len(current_tokens) |->
        IF current_tokens[idx] = mask_token_id
        THEN [text |-> mask_token_str, color |-> "#444444"]
        ELSE IF previous_tokens[idx] = mask_token_id
             THEN [text |-> decode(<<current_tokens[idx]>>), color |-> "#66CC66"]
             ELSE [text |-> decode(<<current_tokens[idx]>>), color |-> "#6699CC"]]

\* lines 184-190
colorize_final(final_tokens_list) ==
    [idx \in 1..Len(final_tokens_list) |->
        IF final_tokens_list[idx] = mask_token_id
        THEN [text |-> mask_token_str, color |-> "#444444"]
        ELSE [text |-> decode(<<final_tokens_list[idx]>>), color |-> "#6699CC"]]

\* line 160: the states the loop walks, the first one skipped
all_states(visualization_token_states) == visualization_token_states

states_to_show(visualization_token_states) == Tail(visualization_token_states)

\* line 178: what an intermediate step yields
intermediate_update_shared(history, intermediate_history, colored_tokens) ==
    [chatbot |-> format_gradio_history_to_messages(intermediate_history),
     vis |-> VisTokens(colored_tokens),
     history |-> intermediate_history]

intermediate_update(history, intermediate_history, colored_tokens) ==
    [chatbot |-> format_gradio_history_to_messages(intermediate_history),
     vis |-> VisTokens(colored_tokens),
     history |-> history]

\* line 210
skip_only_empty(history) == history = <<>>

bot_response_skips(history) ==
    IF history = <<>> THEN TRUE ELSE Last(history)[2] # None

\* line 260
clear_conversation_keeps_vis ==
    [history |-> <<>>, chatbot |-> <<>>, textbox |-> EmptyStr,
     vis |-> VisStr(<<"stale">>)]

clear_conversation ==
    [history |-> <<>>, chatbot |-> <<>>, textbox |-> EmptyStr,
     vis |-> VisStr(EmptyStr)]

\* ------------------------------------------------------------------- state
VARIABLES
    chat_history_state,          \* gr.State: the conversation history
    chatbot_display,             \* gr.Chatbot: the messages shown
    user_input_textbox,          \* gr.Textbox: the text typed
    vis_output_display,          \* gr.HighlightedText: the coloured tokens
    visQueue,                    \* queued events of the lambda of lines 284, 288
    botQueue,                    \* queued events of bot_response_generator
    pc,                          \* where the one running generator stands
    history,                     \* the generator's argument
    input_ids,                   \* the tokenized prompt
    visualization_token_states,  \* the snapshots the hook recorded
    hook_call_count,
    output,                      \* output.sequences[0]
    intermediate_history,        \* the deep copy the progress text goes to
    previous_tokens,
    loop_i,                      \* iterations of the loop of line 160 done
    input_history,               \* history as the generator received it
    emitted,                     \* the updates the generator has yielded
    outcome,                     \* how the generator ended
    lastOp                       \* the page event that ran last, and what was submitted

ui == <<chat_history_state, chatbot_display, user_input_textbox, vis_output_display>>

locals == <<input_ids, visualization_token_states, hook_call_count, output,
            intermediate_history, previous_tokens, loop_i>>

gen == <<pc, history, locals, input_history, emitted, outcome>>

vars == <<ui, visQueue, botQueue, gen, lastOp>>

prompt_length == Len(input_ids)

Op(name) == [op |-> name, msg |-> EmptyStr]

Init ==
    /\ chat_history_state = <<>>
    /\ chatbot_display = <<>>
    /\ user_input_textbox = EmptyStr
    /\ vis_output_display = VisStr(EmptyStr)
    /\ visQueue = 0
    /\ botQueue = 0
    /\ pc = "idle"
    /\ history = <<>>
    /\ input_ids = <<>>
    /\ visualization_token_states = <<>>
    /\ hook_call_count = 0
    /\ output = <<>>
    /\ intermediate_history = <<>>
    /\ previous_tokens = <<>>
    /\ loop_i = 0
    /\ input_history = <<>>
    /\ emitted = <<>>
    /\ outcome = "none"
    /\ lastOp = Op("other")

\* ------------------------------------------------------------ page events
\* the user edits the input box
TypeMessage ==
    /\ \E m \in Messages :
        /\ m # user_input_textbox
        /\ user_input_textbox' = m
    /\ lastOp' = Op("other")
    /\ UNCHANGED <<chat_history_state, chatbot_display, vis_output_display,
                   visQueue, botQueue, gen>>

\* user_input_textbox.submit or send_button.click (lines 271-275, 283, 287):
\* user_message_submitted runs, then the two chained events are queued
SubmitEvent ==
    /\ botQueue < MaxQueue
    /\ visQueue < MaxQueue
    /\ Len(chat_history_state) < MaxHistory
    /\ LET r == user_message_submitted(user_input_textbox, chat_history_state)
       IN /\ chat_history_state' = r.history
          /\ chatbot_display' = r.chatbot
          /\ user_input_textbox' = r.textbox
    /\ visQueue' = visQueue + 1
    /\ botQueue' = botQueue + 1
    /\ lastOp' = [op |-> "submit", msg |-> user_input_textbox]
    /\ UNCHANGED <<vis_output_display, gen>>

\* clear_button.click (lines 259-267), not queued: it runs at once
ClearEvent ==
    /\ LET r == clear_conversation
       IN /\ chat_history_state' = r.history
          /\ chatbot_display' = r.chatbot
          /\ user_input_textbox' = r.textbox
          /\ vis_output_display' = r.vis
    /\ lastOp' = Op("clear")
    /\ UNCHANGED <<visQueue, botQueue, gen>>

\* submit_action.then(lambda: "", outputs=[vis_output_display])
VisClear ==
    /\ visQueue > 0
    /\ visQueue' = visQueue - 1
    /\ vis_output_display' = VisStr(EmptyStr)
    /\ lastOp' = Op("other")
    /\ UNCHANGED <<chat_history_state, chatbot_display, user_input_textbox,
                   botQueue, gen>>

\* ---------------------------------------------------------- the generator
\* the framework writes a yielded triple to the three outputs of line 280
Yield(kind, u) ==
    /\ chatbot_display' = u.chatbot
    /\ vis_output_display' = u.vis
    /\ chat_history_state' = u.history
    /\ emitted' = Append(emitted, kind)

\* the generator returns or dies: its frame, and what it held, is gone
Released ==
    /\ history' = <<>>
    /\ input_history' = <<>>
    /\ input_ids' = <<>>
    /\ visualization_token_states' = <<>>
    /\ hook_call_count' = 0
    /\ output' = <<>>
    /\ intermediate_history' = <<>>
    /\ previous_tokens' = <<>>
    /\ loop_i' = 0

\* default_concurrency_limit=1: one bot_response_generator at a time; it reads
\* its inputs when it starts
BotStarts ==
    /\ pc \in {"idle", "done", "crashed"}
    /\ botQueue > 0
    /\ botQueue' = botQueue - 1
    /\ UNCHANGED <<user_input_textbox, visQueue>>

\* lines 210-213
BotSkip ==
    /\ BotStarts
    /\ bot_response_skips(chat_history_state)
    /\ chatbot_display' = format_gradio_history_to_messages(chat_history_state)
    /\ vis_output_display' = VisStr(EmptyStr)
    /\ chat_history_state' = chat_history_state
    /\ emitted' = <<"skip">>
    /\ Released
    /\ pc' = "done"
    /\ outcome' = "skip"
    /\ lastOp' = Op("other")

\* lines 214, 73-80: the prompt is tokenized
BotTokenizes ==
    /\ BotStarts
    /\ ~bot_response_skips(chat_history_state)
    /\ input_ids' = apply_chat_template(
                        format_gradio_history_to_messages(chat_history_state))
    /\ history' = chat_history_state
    /\ input_history' = chat_history_state
    /\ emitted' = <<>>
    /\ pc' = "generate"
    /\ outcome' = "running"
    /\ lastOp' = Op("other")
    /\ UNCHANGED <<chat_history_state, chatbot_display, vis_output_display,
                   visualization_token_states, hook_call_count, output,
                   intermediate_history, previous_tokens, loop_i>>

\* lines 81-90: apply_chat_template raises
BotTokenizeFails ==
    /\ BotStarts
    /\ ~bot_response_skips(chat_history_state)
    /\ LET u == error_update(chat_history_state, "Error: ", "Input processing error")
       IN /\ chatbot_display' = u.chatbot
          /\ vis_output_display' = u.vis
          /\ chat_history_state' = u.history
          /\ emitted' = <<"error">>
    /\ Released
    /\ pc' = "done"
    /\ outcome' = "err_input"
    /\ lastOp' = Op("other")

\* lines 96-100: diffusion_generate calls the hook with the current sequence
Hook(spans, most) ==
    /\ pc = "generate"
    /\ hook_call_count < most
    /\ \E span \in spans :
        visualization_token_states' =
            Append(visualization_token_states, input_ids \o span)
    /\ hook_call_count' = hook_call_count + 1
    /\ lastOp' = Op("other")
    /\ UNCHANGED <<ui, visQueue, botQueue, pc, history, input_ids, output,
                   intermediate_history, previous_tokens, loop_i, input_history,
                   emitted, outcome>>

\* lines 109-122, 150-157: diffusion_generate returns and the hook recorded
\* at least one snapshot
GenerateReturns(spans) ==
    /\ pc = "generate"
    /\ visualization_token_states # <<>>
    /\ \E span \in spans : output' = input_ids \o span
    /\ intermediate_history' = history
    /\ LET first_state == visualization_token_states[1]
           gen_length == Len(first_state) - prompt_length
       IN previous_tokens' = [k \in 1..gen_length |-> mask_token_id]
    /\ loop_i' = 0
    /\ pc' = "loop"
    /\ lastOp' = Op("other")
    /\ UNCHANGED <<ui, visQueue, botQueue, history, input_ids,
                   visualization_token_states, hook_call_count, input_history,
                   emitted, outcome>>

\* lines 109-122, 150-155: diffusion_generate returns and the hook was never
\* called: visualization_token_states[0] raises IndexError, which nothing catches
GenerateReturnsNoSnapshot ==
    /\ pc = "generate"
    /\ visualization_token_states = <<>>
    /\ Released
    /\ pc' = "crashed"
    /\ outcome' = "crash"
    /\ lastOp' = Op("other")
    /\ UNCHANGED <<ui, visQueue, botQueue, emitted>>

\* lines 123-147: diffusion_generate raises
GenerateFails ==
    /\ pc = "generate"
    /\ \E cuda \in BOOLEAN :
        Yield("error",
              error_update(history, "Error: ",
                  IF cuda THEN "Model generation error (CUDA Illegal Memory Access)"
                  ELSE "Unknown error during model generation"))
    /\ pc' = "done"
    /\ outcome' = "err_generate"
    /\ lastOp' = Op("other")
    /\ Released
    /\ UNCHANGED <<user_input_textbox, visQueue, botQueue>>

\* lines 160-178: one iteration of the loop, to its yield
GenIntermediate ==
    /\ pc = "loop"
    /\ loop_i < Len(states_to_show(visualization_token_states))
    /\ LET state_tensor == states_to_show(visualization_token_states)[loop_i + 1]
           current_tokens == Slice(state_tensor, prompt_length)
           colored_tokens == colorize(current_tokens, previous_tokens)
           num_states_to_process == Len(visualization_token_states)
           stepped == SetLastSlot(intermediate_history,
                          StepText(loop_i + 1, num_states_to_process - 1))
       IN /\ previous_tokens' = current_tokens
          /\ intermediate_history' = stepped
          /\ Yield("intermediate",
                   intermediate_update(history, stepped, colored_tokens))
    /\ loop_i' = loop_i + 1
    /\ lastOp' = Op("other")
    /\ UNCHANGED <<user_input_textbox, visQueue, botQueue, pc, history, input_ids,
                   visualization_token_states, hook_call_count, output,
                   input_history, outcome>>

\* lines 169, 172: tokenizer.decode raises inside the loop, which nothing catches
GenIntermediateRaises ==
    /\ pc = "loop"
    /\ loop_i < Len(states_to_show(visualization_token_states))
    /\ LET state_tensor == states_to_show(visualization_token_states)[loop_i + 1]
           current_tokens == Slice(state_tensor, prompt_length)
       IN \E idx \in 1..Len(current_tokens) : current_tokens[idx] # mask_token_id
    /\ pc' = "crashed"
    /\ outcome' = "crash"
    /\ lastOp' = Op("other")
    /\ Released
    /\ UNCHANGED <<ui, visQueue, botQueue, emitted>>

\* lines 180-195: the final text goes to the last pair of history itself
GenFinal ==
    /\ pc = "loop"
    /\ loop_i >= Len(states_to_show(visualization_token_states))
    /\ LET final_tokens_list == Slice(output, prompt_length)
           colored_final == colorize_final(final_tokens_list)
           final_text == strip(decode(final_tokens_list))
           filled == SetLastSlot(history, Text(final_text))
       IN Yield("final",
                   [chatbot |-> format_gradio_history_to_messages(filled),
                    vis |-> VisTokens(colored_final),
                    history |-> filled])
    /\ Released
    /\ pc' = "done"
    /\ outcome' = "ok"
    /\ lastOp' = Op("other")
    /\ UNCHANGED <<user_input_textbox, visQueue, botQueue>>

\* lines 196-204: slicing or decoding the output raises
GenFinalFails ==
    /\ pc = "loop"
    /\ loop_i >= Len(states_to_show(visualization_token_states))
    /\ Yield("error",
             error_update(history, "Error processing output: ",
                          "Error processing final output"))
    /\ pc' = "done"
    /\ outcome' = "err_output"
    /\ lastOp' = Op("other")
    /\ Released
    /\ UNCHANGED <<user_input_textbox, visQueue, botQueue>>

\* the page: every event of the user and every step of the generator
Next ==
    \/ TypeMessage
    \/ SubmitEvent
    \/ ClearEvent
    \/ VisClear
    \/ BotSkip
    \/ BotTokenizes
    \/ BotTokenizeFails
    \/ Hook(PageSpans, PageSnapshots)
    \/ GenerateReturns(PageSpans)
    \/ GenerateReturnsNoSnapshot
    \/ GenerateFails
    \/ GenIntermediate
    \/ GenIntermediateRaises
    \/ GenFinal
    \/ GenFinalFails

Spec == Init /\ [][Next]_vars

\* one call of bot_response_generator on any history, any snapshots and any
\* output of the model, with no page event in between
GenHistories ==
    UNION {[1..k -> {<<(<<"a">>), None>>, <<(<<"a">>), Text(<<"a">>)>>}] :
           k \in 0..MaxHistory}

InitGen ==
    /\ chat_history_state \in GenHistories
    /\ chatbot_display = format_gradio_history_to_messages(chat_history_state)
    /\ user_input_textbox = EmptyStr
    /\ vis_output_display = VisStr(EmptyStr)
    /\ visQueue = 0
    /\ botQueue = 1
    /\ pc = "idle"
    /\ history = <<>>
    /\ input_ids = <<>>
    /\ visualization_token_states = <<>>
    /\ hook_call_count = 0
    /\ output = <<>>
    /\ intermediate_history = <<>>
    /\ previous_tokens = <<>>
    /\ loop_i = 0
    /\ input_history = <<>>
    /\ emitted = <<>>
    /\ outcome = "none"
    /\ lastOp = Op("other")

NextGen ==
    \/ BotSkip
    \/ BotTokenizes
    \/ BotTokenizeFails
    \/ Hook(GenSpans, MaxSnapshots)
    \/ GenerateReturns(GenSpans)
    \/ GenerateReturnsNoSnapshot
    \/ GenerateFails
    \/ GenIntermediate
    \/ GenIntermediateRaises
    \/ GenFinal
    \/ GenFinalFails

SpecGen == InitGen /\ [][NextGen]_vars

\* ------------------------------------------------------------- the claims
\* which step of the generator a transition is
Starts == botQueue' = botQueue - 1

YieldsA(kind) ==
    /\ Len(emitted') = Len(emitted) + 1
    /\ Last(emitted') = kind
    /\ ~Starts

Colors == [gray |-> "#444444", green |-> "#66CC66", blue |-> "#6699CC"]

AllMask(n) == [k \in 1..n |-> mask_token_id]

Repeat(kind, n) == [k \in 1..n |-> kind]

\* C1 as amended: a submission whose message is not blank (not empty once white
\* space is stripped) appends exactly the pair (message, None) to the history:
\* one pair more, the earlier pairs as they were, and the input box empty
C1_SubmitAppendsNonBlank ==
    [][(lastOp'.op = "submit" /\ strip(user_input_textbox) # EmptyStr) =>
        /\ Len(chat_history_state') = Len(chat_history_state) + 1
        /\ \A k \in 1..Len(chat_history_state) :
               chat_history_state'[k] = chat_history_state[k]
        /\ Last(chat_history_state') = <<user_input_textbox, None>>
        /\ user_input_textbox' = EmptyStr]_vars

\* C1 as stated: every non-empty message is appended (white space only included)
C1_SubmitAppendsNonEmpty ==
    [][(lastOp'.op = "submit" /\ user_input_textbox # EmptyStr) =>
        /\ Len(chat_history_state') = Len(chat_history_state) + 1
        /\ \A k \in 1..Len(chat_history_state) :
               chat_history_state'[k] = chat_history_state[k]
        /\ Last(chat_history_state') = <<user_input_textbox, None>>
        /\ user_input_textbox' = EmptyStr]_vars

\* a message was just accepted on top of an earlier pair
C1_Witness ==
    /\ lastOp.op = "submit"
    /\ strip(lastOp.msg) # EmptyStr
    /\ Len(chat_history_state) = 2
    /\ Last(chat_history_state) = <<lastOp.msg, None>>
    /\ user_input_textbox = EmptyStr

\* C2: right after the clear event the history state, the chat display, the
\* visualization panel and the input box are all empty
C2_ClearEmptiesAll ==
    lastOp.op = "clear" =>
        /\ chat_history_state = <<>>
        /\ chatbot_display = <<>>
        /\ vis_output_display = VisStr(EmptyStr)
        /\ user_input_textbox = EmptyStr

\* the clear came while a generation had already shown an intermediate update
C2_Witness ==
    /\ lastOp.op = "clear"
    /\ pc = "loop"
    /\ emitted # <<>>
    /\ chat_history_state = <<>>

\* C3: the k-th intermediate display colours each position of the generated span
\* from snapshot k+1 and the snapshot displayed before it (all mask for the
\* first): gray iff the token is the mask, green iff it is not and the earlier
\* one was, blue otherwise
C3_ColorsFollowSnapshots ==
    (pc = "loop" /\ emitted # <<>>) =>
        LET k == Len(emitted)
            cur == Slice(visualization_token_states[k + 1], prompt_length)
            prev == IF k = 1 THEN AllMask(Len(cur))
                    ELSE Slice(visualization_token_states[k], prompt_length)
            shown == vis_output_display.tokens
        IN /\ vis_output_display.kind = "tokens"
           /\ Len(shown) = Len(cur)
           /\ \A idx \in 1..Len(cur) :
               /\ shown[idx].color = Colors.gray <=> cur[idx] = mask_token_id
               /\ shown[idx].color = Colors.green <=>
                      (cur[idx] # mask_token_id /\ prev[idx] = mask_token_id)
               /\ shown[idx].color = Colors.blue <=>
                      (cur[idx] # mask_token_id /\ prev[idx] # mask_token_id)

\* the second intermediate display shows a stable (blue) token, and the first
\* snapshot, which is never compared, was not all mask
C3_Witness ==
    /\ pc = "loop"
    /\ Len(emitted) = 2
    /\ vis_output_display.kind = "tokens"
    /\ \E idx \in 1..Len(vis_output_display.tokens) :
           vis_output_display.tokens[idx].color = Colors.blue
    /\ Slice(visualization_token_states[1], prompt_length) # AllMask(GenLen)

\* C4 as amended: a generation that succeeds after the hook recorded n >= 1
\* snapshots yields n - 1 intermediate updates, the i-th labelled step i of
\* n - 1, and then exactly one final update
C4_OneUpdatePerSnapshotButFirst ==
    [][/\ YieldsA("final") =>
           emitted' = Repeat("intermediate", Len(visualization_token_states) - 1)
                      \o <<"final">>
       /\ YieldsA("intermediate") =>
           /\ emitted' = Repeat("intermediate", Len(emitted'))
           /\ Last(chatbot_display').content =
                  StepText(Len(emitted'), Len(visualization_token_states) - 1)]_vars

\* C4 as stated: one intermediate update for each of the S calls of the hook
C4_OneUpdatePerHookCall ==
    [][YieldsA("final") =>
           emitted' = Repeat("intermediate", Len(visualization_token_states))
                      \o <<"final">>]_vars

\* three snapshots were recorded, two intermediate updates and the final one came
C4_Witness ==
    /\ outcome = "ok"
    /\ pc = "done"
    /\ emitted = <<"intermediate", "intermediate", "final">>

\* C5: a failure of the tokenizer, of the model call or of the final decoding
\* yields exactly one more update, whose history is the generator's with the
\* error string in the last pair's assistant slot, and the generator is done:
\* nothing more is yielded and no call is made again
C5_FailureYieldsOneError ==
    [][/\ (outcome' \in {"err_input", "err_generate", "err_output"}
           /\ (Starts \/ pc \in {"generate", "loop"})) =>
           LET given == IF Starts THEN chat_history_state ELSE history
           IN /\ emitted' = (IF Starts THEN <<>> ELSE emitted) \o <<"error">>
              /\ Len(chat_history_state') = Len(given)
              /\ \A k \in 1..(Len(given) - 1) : chat_history_state'[k] = given[k]
              /\ Last(chat_history_state')[1] = Last(given)[1]
              /\ Last(chat_history_state')[2].kind = "error"
              /\ pc' = "done"
       /\ (pc = "done" /\ ~Starts) => (emitted' = emitted /\ pc' = "done")]_vars

\* the final decoding failed after an intermediate update
C5_Witness ==
    /\ outcome = "err_output"
    /\ pc = "done"
    /\ emitted = <<"intermediate", "error">>
    /\ chat_history_state # <<>>
    /\ Last(chat_history_state)[2].kind = "error"

\* C6 as stated: the number of pairs changes only by a submission (one more)
\* or by a clear (to none); an update of a generation never changes it
C6_LengthFollowsSubmissions ==
    [][Len(chat_history_state') # Len(chat_history_state) =>
        \/ /\ lastOp'.op = "submit"
           /\ Len(chat_history_state') = Len(chat_history_state) + 1
        \/ /\ lastOp'.op = "clear"
           /\ Len(chat_history_state') = 0]_vars

C8_SkipLeavesHistory ==
    [][(Starts /\ (IF chat_history_state = <<>> THEN TRUE
                   ELSE Last(chat_history_state)[2] # None)) =>
        /\ emitted' = <<"skip">>
        /\ chat_history_state' = chat_history_state
        /\ chatbot_display' = format_gradio_history_to_messages(chat_history_state)
        /\ vis_output_display' = VisStr(EmptyStr)
        /\ pc' = "done"
        /\ hook_call_count' = 0
        /\ output' = <<>>]_vars

\* the generator was started on a history whose last pair has its reply
C8_Witness ==
    /\ outcome = "skip"
    /\ emitted = <<"skip">>
    /\ chat_history_state # <<>>
    /\ Last(chat_history_state)[2].kind = "text"
    /\ vis_output_display = VisStr(EmptyStr)

\* C9 as stated: a generation started for a pending pair ends with a last
\* update that fills the slot, with the final text or with an error string
C9_EveryGenerationAnswers ==
    (pc \in {"done", "crashed"} /\ outcome \notin {"none", "skip"}) =>
        /\ emitted # <<>>
        /\ Last(emitted) \in {"final", "error"}

\* C10 as stated: only the last pair may be pending, and the messages built
\* for the model alternate user, assistant, user, ...
C10_OnlyLastPending ==
    /\ \A k \in 1..Len(chat_history_state) :
           chat_history_state[k][2] = None => k = Len(chat_history_state)
    /\ LET messages == format_gradio_history_to_messages(chat_history_state)
       IN \A k \in 1..Len(messages) :
              messages[k].role = IF k % 2 = 1 THEN "user" ELSE "assistant"
====
